---------------------------- MODULE Spec2Model ----------------------------
(***************************************************************************)
(* Model of davidesartor/NAGA: the transfer-function layers LTI and LTI2d  *)
(* (src/models.py) and the dataset loaders SpeechComand and CIFAR10Dataset *)
(* (src/datasets.py).                                                      *)
(*                                                                         *)
(* Arithmetic.  torch computes over floating-point reals and complexes.    *)
(* The model computes over the prime field GF(P) (the "reals") and its     *)
(* quadratic extension GF(P)[i], i*i = -1 (the "complexes"), P = 3 mod 4.  *)
(* Conjugation a+bi |-> a-bi is the field automorphism, the elements of    *)
(* norm 1 form a cyclic group of order P+1, and for every N dividing P+1   *)
(* it holds a primitive N-th root of unity whose conjugate is its inverse: *)
(* the discrete Fourier transforms below are computed bin by bin exactly   *)
(* as rfft/irfft compute them, Hermitian completion included.  A value     *)
(* that is not finite in torch (a division by zero and everything computed *)
(* from it: inf, nan) is the absorbing token NF.                           *)
(***************************************************************************)
EXTENDS Integers, Sequences, FiniteSets, TLC

\* ------------------------------------------------------------------ bounds
MaxLen == 3      \* longest sequence length L (and L1) of an input
MaxDim == 2      \* largest channel count
MaxOrder == 1    \* largest polynomial order
NumDraws == 2    \* samples of the random initializer
MaxWidth == 2    \* largest width L2 of a 2-D input
MaxSamples == 4  \* largest number of samples N of a dataset

\* --------------------------------------------------------------- arithmetic
\* (every parameter and LET name below is unique across the module's operators)
P == 5039
NF == -1
CNF == <<NF, NF>>

RAdd(ra1, ra2) == IF ra1 = NF \/ ra2 = NF THEN NF ELSE (ra1 + ra2) % P
RMul(rm1, rm2) == IF rm1 = NF \/ rm2 = NF THEN NF ELSE (rm1 * rm2) % P

RECURSIVE RPow(_, _)
RPow(rpb, rpn) ==
    IF rpn = 0 THEN 1
    ELSE LET rph == RPow(rpb, rpn \div 2)
             rps == (rph * rph) % P
         IN  IF rpn % 2 = 1 THEN (rps * rpb) % P ELSE rps

\* the inverses of GF(P): a^(P-2)
InvTable == [ivt \in 0..(P - 1) |-> RPow(ivt, P - 2)]
\* 1/a for a finite and nonzero
RInv(ri) == InvTable[ri]
\* a / b as torch divides floats: a division by zero is not finite
RDiv(rd1, rd2) ==
    IF rd1 = NF \/ rd2 = NF \/ rd2 = 0 THEN NF ELSE (rd1 * RInv(rd2)) % P

CFin(cf) == cf[1] # NF /\ cf[2] # NF
CZero == <<0, 0>>
COne == <<1, 0>>
CReal(cr) == IF cr = NF THEN CNF ELSE <<cr, 0>>
CAdd(ca1, ca2) ==
    IF ~CFin(ca1) \/ ~CFin(ca2) THEN CNF
    ELSE <<(ca1[1] + ca2[1]) % P, (ca1[2] + ca2[2]) % P>>
CMul(cm1, cm2) ==
    IF ~CFin(cm1) \/ ~CFin(cm2) THEN CNF
    ELSE <<(cm1[1] * cm2[1] + (P - cm1[2]) * cm2[2]) % P,
           (cm1[1] * cm2[2] + cm1[2] * cm2[1]) % P>>
CConj(cc) == IF ~CFin(cc) THEN CNF ELSE <<cc[1], (P - cc[2]) % P>>
CNorm(cn) == (cn[1] * cn[1] + cn[2] * cn[2]) % P
CDiv(cd1, cd2) ==
    IF ~CFin(cd1) \/ ~CFin(cd2) \/ cd2 = CZero THEN CNF
    ELSE CMul(CMul(cd1, CConj(cd2)), <<RInv(CNorm(cd2)), 0>>)

RECURSIVE CPow(_, _)
CPow(cpb, cpn) ==
    IF cpn = 0 THEN COne
    ELSE LET cph == CPow(cpb, cpn \div 2)
             cps == CMul(cph, cph)
         IN  IF cpn % 2 = 1 THEN CMul(cps, cpb) ELSE cps

\* a generator of the group of norm-1 elements (order P+1): z / conj(z), z = 1+4i
UnitGen == CDiv(<<1, 4>>, CConj(<<1, 4>>))
\* Roots[n][k] = exp(2 pi i k / n), for the transform lengths n in use
Roots == [rtn \in 1..(2 * MaxLen + 2) |->
            IF (P + 1) % rtn = 0
            THEN [rtk \in 0..(rtn - 1) |->
                    CPow(CPow(UnitGen, (P + 1) \div rtn), rtk)]
            ELSE [rtk \in 0..(rtn - 1) |-> CNF]]

\* TLC evaluates a function constructor on demand, entry by entry and again at
\* every use; f @@ <<>> is the same function with every entry computed once
Table(ef) == ef @@ <<>>

RECURSIVE CSum(_, _, _)
\* sum of the complex values f[lo..hi] (halving, to keep the evaluation shallow)
CSum(csf, cslo, cshi) ==
    IF cslo > cshi THEN CZero
    ELSE IF cslo = cshi THEN csf[cslo]
    ELSE CAdd(CSum(csf, cslo, (cslo + cshi) \div 2),
              CSum(csf, (cslo + cshi) \div 2 + 1, cshi))
RECURSIVE RSum(_, _, _)
\* sum of the real values f[lo..hi]
RSum(rsf, rslo, rshi) ==
    IF rslo > rshi THEN 0
    ELSE IF rslo = rshi THEN rsf[rslo]
    ELSE RAdd(RSum(rsf, rslo, (rslo + rshi) \div 2),
              RSum(rsf, (rslo + rshi) \div 2 + 1, rshi))

\* ------------------------------------------------------------ torch.fft
\* rfft(x, n): bins 0..n/2 of the n-point transform of the real signal x on
\* 0..len-1, cropped or zero-padded to n points
\* (the padding zeros add nothing to a bin: the sum runs over the kept samples)
Min(mna, mnb) == IF mna < mnb THEN mna ELSE mnb
rfft(fsig, flen, fn) == Table(
    [fk \in 0..(fn \div 2) |->
        CSum([ft \in 0..(Min(flen, fn) - 1) |->
                CMul(CReal(fsig[ft]), CConj(Roots[fn][(fk * ft) % fn]))],
             0, Min(flen, fn) - 1)])

\* irfft(S, n): the real n-point signal whose half spectrum is S (bins 0..n/2);
\* bins above n/2 are the conjugates of their mirrors, and the imaginary parts
\* of bin 0 and of bin n/2 (n even) are ignored
irfft(ispec, in) ==
    LET ifull == Table([ik \in 0..(in - 1) |->
                   IF ik = 0 \/ (in % 2 = 0 /\ ik = in \div 2)
                   THEN CReal(ispec[ik][1])
                   ELSE IF ik <= in \div 2 THEN ispec[ik]
                        ELSE CConj(ispec[in - ik])])
    IN  Table([it \in 0..(in - 1) |->
            RMul(RInv(in % P),
                 CSum([ij \in 0..(in - 1) |->
                        CMul(ifull[ij], Roots[in][(ij * it) % in])], 0, in - 1)[1])])

\* ------------------------------------------------------------ LTI (1-D)
\* the index set of one parameter tensor without its last axis:
\* (input_dim, output_dim) if mimo else (input_dim,)
Shape(mimo, input_dim, output_dim) ==
    IF mimo THEN (0..(input_dim - 1)) \X (0..(output_dim - 1))
    ELSE {<<shi>> : shi \in 0..(input_dim - 1)}

\* a pad that ignores its fill value and prepends 1 (mutation of Pad1)
Pad1One(uc1, uord, uv) == [uk \in 0..uord |-> IF uk = 0 THEN 1 ELSE uc1[uk - 1]]

\* pad(c, (1, 0), value=v): v prepended on the last axis (length order -> order+1)
Pad1(pc1, pord, pv) == [pk \in 0..pord |-> IF pk = 0 THEN pv ELSE pc1[pk - 1]]

\* h_truncated for one coefficient pair (lines 38-41):
\* irfft(rfft(b, n=L) / rfft(a, n=L), n=L), a = pad(den, value=1), b = pad(num, value=0)
TruncatedImpulse(tnum, tden, tord, tL) ==
    LET tA == rfft(Pad1(tden, tord, 1), tord + 1, tL)
        tB == rfft(Pad1(tnum, tord, 0), tord + 1, tL)
    IN  irfft(Table([tk \in 0..(tL \div 2) |-> CDiv(tB[tk], tA[tk])]), tL)

\* h_truncated of lines 38-41, for both numerator sets and every index of Shape
LTIImpulse(mlayer, mL) ==
    Table([mq \in 0..1 |->
        Table([ms \in Shape(mlayer.mimo, mlayer.input_dim, mlayer.output_dim) |->
            TruncatedImpulse(mlayer.numerators[mq][ms], mlayer.denumerator[ms],
                             mlayer.order, mL)])])

\* transforms of length L, without the zero-padding (mutation of ConvLen)
ConvLenNoPad(yL) == yL

\* n of rfft(h_truncated, n=2 * L) and rfft(x, n=2 * L) (lines 44, 52)
ConvLen(kL) == 2 * kL
\* the output length of irfft(Y) without n (line 57): 2 * (bins - 1)
IrfftLen(kbins) == 2 * (kbins - 1)

\* the combination of line 49 taken whatever the causal flag (mutation of
\* LTITransfer)
LTITransferIgnoreFlag(glayer, gh, gL) ==
    Table([gs \in Shape(glayer.mimo, glayer.input_dim, glayer.output_dim) |->
        LET gHc == rfft(gh[0][gs], gL, 2 * gL)
            gHa == rfft(gh[1][gs], gL, 2 * gL)
        IN  Table([gl \in 0..gL |->
                CAdd(CAdd(CReal(glayer.h0[gs]), gHc[gl]), CConj(gHa[gl]))])])

\* line 49 without the conjugation of H_anticausal (mutation of LTITransfer)
LTITransferNoConj(jlayer, jh, jL) ==
    Table([js \in Shape(jlayer.mimo, jlayer.input_dim, jlayer.output_dim) |->
        LET jHc == rfft(jh[0][js], jL, 2 * jL)
            jHa == rfft(jh[1][js], jL, 2 * jL)
        IN  Table([jl \in 0..jL |->
                IF jlayer.causal
                THEN CAdd(CReal(jlayer.h0[js]), jHc[jl])
                ELSE CAdd(CAdd(CReal(jlayer.h0[js]), jHc[jl]), jHa[jl])])])

\* H of lines 44-49: the bins of the transfer function padded to 2L
\* (H_causal, H_anticausal = unbind(rfft(h_truncated, n=2L)))
LTITransfer(hlayer, hh, hL) ==
    Table([hs \in Shape(hlayer.mimo, hlayer.input_dim, hlayer.output_dim) |->
        LET hHc == rfft(hh[0][hs], hL, ConvLen(hL))
            hHa == rfft(hh[1][hs], hL, ConvLen(hL))
        IN  Table([hl \in 0..(ConvLen(hL) \div 2) |->
                IF hlayer.causal
                THEN CAdd(CReal(hlayer.h0[hs]), hHc[hl])
                ELSE CAdd(CAdd(CReal(hlayer.h0[hs]), hHc[hl]), CConj(hHa[hl]))])])

\* channel count of the output: the einsum of line 54 ("...lj") or 56 ("...li")
OutDim(olayer) == IF olayer.mimo THEN olayer.output_dim ELSE olayer.input_dim

\* lines 52-58: y = irfft(einsum(rfft(x, n=2L, dim=-2), H), dim=-2)[:L]
LTIConvolve(vlayer, vH, vx, vL) ==
    LET vbins == ConvLen(vL) \div 2 + 1
        vX == Table([vi \in 0..(vlayer.input_dim - 1) |->
                 rfft([vt \in 0..(vL - 1) |-> vx[vt][vi]], vL, ConvLen(vL))])
        vY == Table([vj \in 0..(OutDim(vlayer) - 1) |->
                 Table([vl \in 0..(vbins - 1) |->
                    IF vlayer.mimo
                    THEN CSum([vm \in 0..(vlayer.input_dim - 1) |->
                                 CMul(vX[vm][vl], vH[<<vm, vj>>][vl])],
                              0, vlayer.input_dim - 1)
                    ELSE CMul(vX[vj][vl], vH[<<vj>>][vl])])])
        vy == Table([vc \in 0..(OutDim(vlayer) - 1) |->
                 irfft(vY[vc], IrfftLen(vbins))])
    IN  \* y[..., :L, :]: the first L positions, or all of them if there are fewer
        [vu \in 0..(Min(vL, IrfftLen(vbins)) - 1) |->
            [vd \in 0..(OutDim(vlayer) - 1) |-> vy[vd][vu]]]

\* LTI.__call__ (L is x.shape[-2]): the locals h_truncated and H, and the result y
LTIForward(wlayer, wx, wL) ==
    LET wh == LTIImpulse(wlayer, wL)
        wH == LTITransfer(wlayer, wh, wL)
    IN  [x |-> wx, L |-> wL, L2 |-> 0, h |-> wh, H |-> wH,
         y |-> LTIConvolve(wlayer, wH, wx, wL)]

\* ------------------------------------------------------------ LTI2d
\* pad(c, (1, 0, 1, 0), value=v): one row before the first row and one column
\* before the first column, every padded entry v (order x order -> order+1 x order+1)
Pad2(pc2, pord2, pv2) ==
    [pi2 \in 0..pord2 |-> [pj2 \in 0..pord2 |->
        IF pi2 = 0 \/ pj2 = 0 THEN pv2 ELSE pc2[pi2 - 1][pj2 - 1]]]

\* rfft2(x, s=(n1, n2)): the real array x on (0..len1-1) x (0..len2-1), cropped or
\* zero-padded to n1 x n2; rfft along the last axis, then the full transform
\* along the other: bins (0..n1-1) x (0..n2/2)
rfft2(gsig, glen1, glen2, gn1, gn2) ==
    LET grows == Table([gt1 \in 0..(Min(glen1, gn1) - 1) |->
                    rfft(gsig[gt1], glen2, gn2)])
    IN  Table([gk1 \in 0..(gn1 - 1) |->
            Table([gk2 \in 0..(gn2 \div 2) |->
                CSum([gu1 \in 0..(Min(glen1, gn1) - 1) |->
                        CMul(grows[gu1][gk2], CConj(Roots[gn1][(gk1 * gu1) % gn1]))],
                     0, Min(glen1, gn1) - 1)])])

\* irfft2(S, s=(n1, n2)), S on (0..n1-1) x (0..n2/2): the inverse complex
\* transform along the first axis, then irfft along the last
irfft2(jspec, jn1, jn2) ==
    LET jZ == Table([jt1 \in 0..(jn1 - 1) |->
                 Table([jk2 \in 0..(jn2 \div 2) |->
                    CMul(CReal(RInv(jn1 % P)),
                         CSum([jk1 \in 0..(jn1 - 1) |->
                                 CMul(jspec[jk1][jk2], Roots[jn1][(jk1 * jt1) % jn1])],
                              0, jn1 - 1))])])
    IN  Table([ju1 \in 0..(jn1 - 1) |-> irfft(jZ[ju1], jn2)])

\* h_truncated for one coefficient pair (lines 92-95)
TruncatedImpulse2d(bnum, bden, bord, bL1, bL2) ==
    LET bA == rfft2(Pad2(bden, bord, 1), bord + 1, bord + 1, bL1, bL2)
        bB == rfft2(Pad2(bnum, bord, 0), bord + 1, bord + 1, bL1, bL2)
    IN  irfft2(Table([bk1 \in 0..(bL1 - 1) |->
                   Table([bk2 \in 0..(bL2 \div 2) |-> CDiv(bB[bk1][bk2], bA[bk1][bk2])])]),
               bL1, bL2)

\* h_truncated of lines 92-95, for the four numerator sets and every index of Shape
LTI2dImpulse(player, pL1, pL2) ==
    Table([pq \in 0..3 |->
        Table([ps \in Shape(player.mimo, player.input_dim, player.output_dim) |->
            TruncatedImpulse2d(player.numerators[pq][ps], player.denumerator[ps],
                               player.order, pL1, pL2)])])

\* H of lines 98-106 (H_cc, H_ca, H_ac, H_aa = unbind(rfft2(h_truncated, s=(2L1, 2L2)));
\* flip(., dims=(-2,)) reverses the first frequency axis: bin k1 -> bin 2L1-1-k1
LTI2dTransfer(qlayer, qh, qL1, qL2) ==
    Table([qs \in Shape(qlayer.mimo, qlayer.input_dim, qlayer.output_dim) |->
        LET qHcc == rfft2(qh[0][qs], qL1, qL2, 2 * qL1, 2 * qL2)
            qHca == rfft2(qh[1][qs], qL1, qL2, 2 * qL1, 2 * qL2)
            qHac == rfft2(qh[2][qs], qL1, qL2, 2 * qL1, 2 * qL2)
            qHaa == rfft2(qh[3][qs], qL1, qL2, 2 * qL1, 2 * qL2)
        IN  Table([qk1 \in 0..(2 * qL1 - 1) |->
                Table([qk2 \in 0..qL2 |->
                    IF qlayer.causal
                    THEN CAdd(CReal(qlayer.h0[qs]), qHcc[qk1][qk2])
                    ELSE CAdd(CAdd(CAdd(CAdd(CReal(qlayer.h0[qs]), qHcc[qk1][qk2]),
                                        qHca[2 * qL1 - 1 - qk1][qk2]),
                                   CConj(qHac[2 * qL1 - 1 - qk1][qk2])),
                              CConj(qHaa[qk1][qk2]))])])])

\* lines 109-115: y = irfft2(einsum(rfft2(x, s=(2L1, 2L2)), H), s=(2L1, 2L2))[:L1, :L2]
LTI2dConvolve(slayer, sH, sx, sL1, sL2) ==
    LET sX == Table([si \in 0..(slayer.input_dim - 1) |->
                 rfft2([st1 \in 0..(sL1 - 1) |-> [st2 \in 0..(sL2 - 1) |-> sx[st1][st2][si]]],
                       sL1, sL2, 2 * sL1, 2 * sL2)])
        sY == Table([sj \in 0..(OutDim(slayer) - 1) |->
                 Table([sk1 \in 0..(2 * sL1 - 1) |->
                    Table([sk2 \in 0..sL2 |->
                        IF slayer.mimo
                        THEN CSum([sm \in 0..(slayer.input_dim - 1) |->
                                     CMul(sX[sm][sk1][sk2], sH[<<sm, sj>>][sk1][sk2])],
                                  0, slayer.input_dim - 1)
                        ELSE CMul(sX[sj][sk1][sk2], sH[<<sj>>][sk1][sk2])])])])
        sy == Table([sc \in 0..(OutDim(slayer) - 1) |-> irfft2(sY[sc], 2 * sL1, 2 * sL2)])
    IN  [su1 \in 0..(sL1 - 1) |-> [su2 \in 0..(sL2 - 1) |->
            [sd \in 0..(OutDim(slayer) - 1) |-> sy[sd][su1][su2]]]]

\* LTI2d.__call__ (L1, L2 are x.shape[-3], x.shape[-2]); L holds L1
LTI2dForward(tlayer, tx, tL1, tL2) ==
    LET th == LTI2dImpulse(tlayer, tL1, tL2)
        tH == LTI2dTransfer(tlayer, th, tL1, tL2)
    IN  [x |-> tx, L |-> tL1, L2 |-> tL2, h |-> th, H |-> tH,
         y |-> LTI2dConvolve(tlayer, tH, tx, tL1, tL2)]

\* ------------------------------------------------------------ construction
\* The values of torch.randn(s) / order.  With order = 0 the division is by
\* zero and no entry is finite.  Otherwise a seed stands for one sample of the
\* generator: entry n (in the order the tensors are created and laid out) of
\* sample seed.  The values include -1 and 1, which put a zero of the
\* denominator on the frequency grid, and 0.
DrawVals == <<1, 2, 0, P - 1>>
Randn(seed, dn, dord) ==
    IF dord = 0 THEN NF ELSE DrawVals[((seed * (dn + 1) + dn \div 2) % 4) + 1]

\* position of an index of Shape in the flattened tensor
Flat(fls, flmimo, fldout) == IF flmimo THEN fls[1] * fldout + fls[2] ELSE fls[1]
ShapeSize(zmimo, zdin, zdout) == IF zmimo THEN zdin * zdout ELSE zdin

\* line 27: assert mimo or (input_dim == output_dim)
LTIAssert(amimo, adin, adout) == amimo \/ adin = adout

\* the assertion of line 82 without its mimo disjunct (mutation of LTI2dAssert)
LTI2dAssertDimsOnly(bmimo1, bdin1, bdout1) == bdin1 = bdout1
\* line 82: assert mimo or (input_dim == output_dim)
LTI2dAssert(bmimo, bdin, bdout) == bmimo \/ bdin = bdout

\* LTI.__init__, lines 24-32 (the assertion of line 27 holds): zero_init picks
\* torch.zeros, else the sample seed
LTILayer(ndin, ndout, nord, ncausal, nmimo, nzero, nseed) ==
    LET nS == Shape(nmimo, ndin, ndout)
        nN == ShapeSize(nmimo, ndin, ndout)
        nInit(nn) == IF nzero THEN 0 ELSE Randn(nseed, nn, nord)
    IN  [kind |-> "LTI", input_dim |-> ndin, output_dim |-> ndout, order |-> nord,
         causal |-> ncausal, mimo |-> nmimo, zero_init |-> nzero,
         h0 |-> [ns \in nS |-> nInit(Flat(ns, nmimo, ndout))],
         numerators |-> [nq \in 0..1 |-> [ns \in nS |-> [nk \in 0..(nord - 1) |->
             nInit(nN + (nq * nN + Flat(ns, nmimo, ndout)) * nord + nk)]]],
         denumerator |-> [ns \in nS |-> [nk \in 0..(nord - 1) |->
             nInit(nN + 2 * nN * nord + Flat(ns, nmimo, ndout) * nord + nk)]]]

\* LTI2d.__init__, lines 79-87 (the assertion of line 82 holds): h0 of shape
\* (*shape, 1, 1), numerators (4, *shape, order, order), denumerator
\* (*shape, order, order)
LTI2dLayer(edin, edout, eord, ecausal, emimo, ezero, eseed) ==
    LET eS == Shape(emimo, edin, edout)
        eN == ShapeSize(emimo, edin, edout)
        eInit(en) == IF ezero THEN 0 ELSE Randn(eseed, en, eord)
    IN  [kind |-> "LTI2d", input_dim |-> edin, output_dim |-> edout, order |-> eord,
         causal |-> ecausal, mimo |-> emimo, zero_init |-> ezero,
         h0 |-> [es \in eS |-> eInit(Flat(es, emimo, edout))],
         numerators |-> [eq \in 0..3 |-> [es \in eS |->
             [ek1 \in 0..(eord - 1) |-> [ek2 \in 0..(eord - 1) |->
                eInit(eN + ((eq * eN + Flat(es, emimo, edout)) * eord + ek1) * eord
                      + ek2)]]]],
         denumerator |-> [es \in eS |->
             [ek1 \in 0..(eord - 1) |-> [ek2 \in 0..(eord - 1) |->
                eInit(eN + 4 * eN * eord * eord
                      + (Flat(es, emimo, edout) * eord + ek1) * eord + ek2)]]]]

\* ------------------------------------------------------------ datasets
Loaders == {"SpeechComand", "CIFAR10Dataset"}
\* the root paths given at construction ("data" is the default)
DataRoots == {"data", "alt"}
\* requests.get: a 200 response holding the archive, another status, or an
\* exception (no connection)
Responses == {"ok", "status", "raises"}
\* the directory names the loaders test, extract and read
DirNames == {"sc09", "cifar10", "cifar-10-batches-py"}

\* the directory whose absence starts a download (lines 19, 60)
CheckedDir(kloader) == IF kloader = "SpeechComand" THEN "sc09" ELSE "cifar10"
\* the top-level directory of the archive, which extractall(path) creates under
\* path (lines 20-25: sc09.zip; lines 61-66: cifar-10-python.tar.gz)
ExtractedDir(xloader) ==
    IF xloader = "SpeechComand" THEN "sc09" ELSE "cifar-10-batches-py"
\* the directory the loading step reads: <<root, name>> (lines 36, 75)
LoadedDir(oloader, opath) ==
    IF oloader = "SpeechComand" THEN <<opath, "sc09">>
    ELSE <<"data", "cifar-10-batches-py">>

\* an exception of requests.get caught and ignored (mutation of FetchRaises)
FetchNeverRaises(eresp1) == FALSE
\* requests.get (lines 22, 63) raises when there is no connection; the
\* constructors have no try block, so the exception leaves __init__
FetchRaises(eresp) == eresp = "raises"

\* the error of the loading step when the directory it reads is missing:
\* glob matches nothing and np.stack([]) raises ValueError (lines 36, 46);
\* open raises FileNotFoundError (line 75)
MissingFilesError(wloader) ==
    IF wloader = "SpeechComand" THEN "ValueError" ELSE "FileNotFoundError"

\* the messages printed by lines 21-28 / 62-69
Printed(zfetch, zresp) ==
    IF ~zfetch THEN <<>>
    ELSE IF FetchRaises(zresp) THEN <<"downloading">>
    ELSE IF zresp = "ok" THEN <<"downloading", "success">>
    ELSE <<"downloading", "failed">>

\* ------------------------------------------------------------ DataLoader
\* the orders a RandomSampler can draw: the permutations of 0..n-1
Perms(vn) ==
    {vf \in [1..vn -> 0..(vn - 1)] :
        \A vi1, vi2 \in 1..vn : vi1 # vi2 => vf[vi1] # vf[vi2]}
\* the number of batches of a BatchSampler
BatchCount(wn, wb, wdrop) == IF wdrop THEN wn \div wb ELSE (wn + wb - 1) \div wb
\* DataLoader(dataset, batch_size, shuffle, drop_last): the batches of one
\* epoch, as index sequences; yperm is the order the sampler draws
DataLoader(yn, yb, yshuffle, ydrop, yperm) ==
    LET yorder == IF yshuffle THEN yperm ELSE [yi0 \in 1..yn |-> yi0 - 1]
    IN  [yk \in 1..BatchCount(yn, yb, ydrop) |->
            [yi \in 1..Min(yb, yn - (yk - 1) * yb) |-> yorder[(yk - 1) * yb + yi]]]
\* a loader that keeps the last, shorter batch (mutation of train_dataloader)
train_dataloader_keep_last(zn1, zb1, zperm1) == DataLoader(zn1, zb1, TRUE, FALSE, zperm1)
\* train_dataloader (lines 53-54, 90-91):
\* DataLoader(self, batch_size, shuffle=True, num_workers=1, drop_last=True)
train_dataloader(zn, zb, zperm) == DataLoader(zn, zb, TRUE, TRUE, zperm)

\* ------------------------------------------------------------------ state
VARIABLES
    pc,     \* "new", "built" (a layer exists), "called", "failed" (AssertionError)
    ctor,   \* the arguments of the last constructor call
    layer,  \* the constructed module: its flags and parameters
    call,   \* the last __call__: its input x, its locals h, H and its output y
    disk,   \* the directories present on disk: <<root, name>>
    op,     \* the last construction of a dataset: what it did and how it ended
    done,   \* <<loader, root>>: a construction has fetched and extracted there
    epoch   \* the last epoch of a train_dataloader: the batches it yielded

vars == <<pc, ctor, layer, call, disk, op, done, epoch>>

NoCtor == [cls |-> "none"]
NoLayer == [kind |-> "none"]
NoCall == [x |-> <<>>, L |-> 0, L2 |-> 0, h |-> <<>>, H |-> <<>>, y |-> <<>>]
NoOp == [loader |-> "none"]
NoEpoch == [loader |-> "none"]

Dims == 1..MaxDim
Orders == 0..MaxOrder
Seeds == 1..NumDraws
Lens == 1..MaxLen
Widths == 1..MaxWidth

\* the inputs of length L with D channels given to a layer: the zero sequence,
\* the unit impulses, and a sequence with no zero entry
Impulse(iL, iD, ipos, ich) ==
    [it0 \in 0..(iL - 1) |-> [ic0 \in 0..(iD - 1) |->
        IF it0 = ipos /\ ic0 = ich THEN 1 ELSE 0]]
Ramp(rL, rD) == [rt0 \in 0..(rL - 1) |-> [rc0 \in 0..(rD - 1) |-> rt0 + rc0 + 1]]
Zero(zL, zD) == [zt0 \in 0..(zL - 1) |-> [zc0 \in 0..(zD - 1) |-> 0]]
Inputs(xL, xD) ==
    {Impulse(xL, xD, xp, xc) : xp \in 0..(xL - 1), xc \in 0..(xD - 1)}
        \cup {Zero(xL, xD), Ramp(xL, xD)}

\* the inputs of shape L1 x L2 x D given to a 2-D layer: the unit impulses of
\* channel 0 and an array with no zero entry
Impulse2d(iL1, iL2, iD2, ipos1, ipos2) ==
    [it1 \in 0..(iL1 - 1) |-> [it2 \in 0..(iL2 - 1) |-> [ic2 \in 0..(iD2 - 1) |->
        IF it1 = ipos1 /\ it2 = ipos2 /\ ic2 = 0 THEN 1 ELSE 0]]]
Ramp2d(rL1, rL2, rD2) ==
    [rt1 \in 0..(rL1 - 1) |-> [rt2 \in 0..(rL2 - 1) |-> [rc2 \in 0..(rD2 - 1) |->
        rt1 + 2 * rt2 + rc2 + 1]]]
Inputs2d(xL1, xL2, xD2) ==
    {Impulse2d(xL1, xL2, xD2, xp1, xp2) : xp1 \in 0..(xL1 - 1), xp2 \in 0..(xL2 - 1)}
        \cup {Ramp2d(xL1, xL2, xD2)}

\* no layer, no dataset, an empty disk
Init ==
    /\ pc = "new"
    /\ ctor = NoCtor
    /\ layer = NoLayer
    /\ call = NoCall
    /\ disk = {}
    /\ op = NoOp
    /\ done = {}
    /\ epoch = NoEpoch

\* LTI(input_dim, output_dim, order, causal, mimo, zero_init)
LTIInit(input_dim, output_dim, order, causal, mimo, zero_init, seed) ==
    /\ pc = "new"
    /\ ctor' = [cls |-> "LTI", input_dim |-> input_dim, output_dim |-> output_dim,
                mimo |-> mimo]
    /\ IF LTIAssert(mimo, input_dim, output_dim)
       THEN /\ pc' = "built"
            /\ layer' = LTILayer(input_dim, output_dim, order, causal, mimo,
                                 zero_init, seed)
       ELSE /\ pc' = "failed"
            /\ layer' = layer
    /\ UNCHANGED <<call, disk, op, done, epoch>>

\* LTI2d(input_dim, output_dim, order, causal, mimo, zero_init)
LTI2dInit(input_dim, output_dim, order, causal, mimo, zero_init, seed) ==
    /\ pc = "new"
    /\ ctor' = [cls |-> "LTI2d", input_dim |-> input_dim, output_dim |-> output_dim,
                mimo |-> mimo]
    /\ IF LTI2dAssert(mimo, input_dim, output_dim)
       THEN /\ pc' = "built"
            /\ layer' = LTI2dLayer(input_dim, output_dim, order, causal, mimo,
                                   zero_init, seed)
       ELSE /\ pc' = "failed"
            /\ layer' = layer
    /\ UNCHANGED <<call, disk, op, done, epoch>>

\* layer(x), x of shape (L, input_dim)
LTICall(cx, cL) ==
    /\ pc = "built"
    /\ layer.kind = "LTI"
    /\ pc' = "called"
    /\ call' = LTIForward(layer, cx, cL)
    /\ UNCHANGED <<ctor, layer, disk, op, done, epoch>>

\* layer(x), x of shape (L1, L2, input_dim)
LTI2dCall(dx, dL1, dL2) ==
    /\ pc = "built"
    /\ layer.kind = "LTI2d"
    /\ pc' = "called"
    /\ call' = LTI2dForward(layer, dx, dL1, dL2)
    /\ UNCHANGED <<ctor, layer, disk, op, done, epoch>>

\* the caller drops the result; the layer is kept for its next call
Return ==
    /\ pc = "called"
    /\ pc' = "built"
    /\ call' = NoCall
    /\ UNCHANGED <<ctor, layer, disk, op, done, epoch>>

\* the caller drops the layer, or handles the AssertionError
Drop ==
    /\ pc \in {"built", "failed"}
    /\ pc' = "new"
    /\ ctor' = NoCtor
    /\ layer' = NoLayer
    /\ UNCHANGED <<call, disk, op, done, epoch>>

NextLTI ==
    \/ /\ pc = "new"
       /\ \E input_dim \in Dims, output_dim \in Dims, order \in Orders,
             causal \in BOOLEAN, mimo \in BOOLEAN, zero_init \in BOOLEAN,
             seed \in Seeds :
                LTIInit(input_dim, output_dim, order, causal, mimo, zero_init, seed)
    \/ /\ pc = "built"
       /\ \E cL \in Lens : \E cx \in Inputs(cL, layer.input_dim) : LTICall(cx, cL)
    \/ Return

SpecLTI == Init /\ [][NextLTI]_vars

NextLTI2d ==
    \/ /\ pc = "new"
       /\ \E input_dim \in Dims, output_dim \in Dims, order \in Orders,
             causal \in BOOLEAN, mimo \in BOOLEAN, zero_init \in BOOLEAN,
             seed \in Seeds :
                LTI2dInit(input_dim, output_dim, order, causal, mimo, zero_init, seed)
    \/ /\ pc = "built"
       /\ \E dL1 \in Lens, dL2 \in Widths :
            \E dx \in Inputs2d(dL1, dL2, layer.input_dim) : LTI2dCall(dx, dL1, dL2)
    \/ Return

SpecLTI2d == Init /\ [][NextLTI2d]_vars

NextCtor ==
    \/ /\ pc = "new"
       /\ \E input_dim \in Dims, output_dim \in Dims, order \in Orders,
             causal \in BOOLEAN, mimo \in BOOLEAN, zero_init \in BOOLEAN,
             seed \in Seeds :
                \/ LTIInit(input_dim, output_dim, order, causal, mimo, zero_init, seed)
                \/ LTI2dInit(input_dim, output_dim, order, causal, mimo, zero_init,
                             seed)
    \/ Drop

SpecCtor == Init /\ [][NextCtor]_vars

\* any directories may be on disk before the first construction
InitData ==
    /\ pc = "new"
    /\ ctor = NoCtor
    /\ layer = NoLayer
    /\ call = NoCall
    /\ disk \in SUBSET (DataRoots \X DirNames)
    /\ op = NoOp
    /\ done = {}
    /\ epoch = NoEpoch

\* SpeechComand.__init__ / CIFAR10Dataset.__init__ with root path upath, the
\* network answering uresp if asked
Construct(uloader, upath, uresp) ==
    LET ufetch == <<upath, CheckedDir(uloader)>> \notin disk
        uraised == ufetch /\ FetchRaises(uresp)
        uextract == ufetch /\ ~uraised /\ uresp = "ok"
        udisk == IF uextract THEN disk \cup {<<upath, ExtractedDir(uloader)>>}
                 ELSE disk
        ufound == LoadedDir(uloader, upath) \in udisk
    IN  /\ disk' = udisk
        /\ done' = IF uextract THEN done \cup {<<uloader, upath>>} ELSE done
        /\ op' = [loader |-> uloader, path |-> upath, before |-> disk,
                  doneBefore |-> <<uloader, upath>> \in done,
                  fetched |-> ufetch,
                  response |-> IF ufetch THEN uresp ELSE "none",
                  printed |-> Printed(ufetch, uresp),
                  loading |-> ~uraised,
                  reads |-> IF uraised THEN {} ELSE {LoadedDir(uloader, upath)},
                  error |-> IF uraised THEN "ConnectionError"
                            ELSE IF ufound THEN "none"
                            ELSE MissingFilesError(uloader),
                  object |-> ~uraised /\ ufound]
        /\ UNCHANGED <<pc, ctor, layer, call, epoch>>

\* SpeechComand(path)
SpeechComandInit(path, resp) == Construct("SpeechComand", path, resp)
\* CIFAR10Dataset(path)
CIFAR10DatasetInit(path, resp) == Construct("CIFAR10Dataset", path, resp)

NextData ==
    \/ \E path \in DataRoots, resp \in Responses : SpeechComandInit(path, resp)
    \/ \E path \in DataRoots, resp \in Responses : CIFAR10DatasetInit(path, resp)

SpecData == InitData /\ [][NextData]_vars

\* one epoch of dataset.train_dataloader(batch_size) over a dataset of n samples
TrainEpoch(tloader, tn, tb, tperm) ==
    /\ epoch' = [loader |-> tloader, n |-> tn, batch_size |-> tb,
                 batches |-> train_dataloader(tn, tb, tperm)]
    /\ UNCHANGED <<pc, ctor, layer, call, disk, op, done>>
SpeechComandEpoch(n, batch_size, perm) ==
    TrainEpoch("SpeechComand", n, batch_size, perm)
CIFAR10DatasetEpoch(n, batch_size, perm) ==
    TrainEpoch("CIFAR10Dataset", n, batch_size, perm)

NextLoader ==
    \/ \E n \in 1..MaxSamples, batch_size \in 1..MaxSamples :
         \E perm \in Perms(n) : SpeechComandEpoch(n, batch_size, perm)
    \/ \E n \in 1..MaxSamples, batch_size \in 1..MaxSamples :
         \E perm \in Perms(n) : CIFAR10DatasetEpoch(n, batch_size, perm)

SpecLoader == Init /\ [][NextLoader]_vars

\* ------------------------------------------------------------ claims on LTI
Called1d == pc = "called" /\ layer.kind = "LTI"
\* the output channel that the parameter index s feeds
OutOf(qs, qmimo) == IF qmimo THEN qs[2] ELSE qs[1]
InOf(qs) == qs[1]
Finite(qy, qL, qD) == \A qt \in 0..(qL - 1), qc \in 0..(qD - 1) : qy[qt][qc] # NF

\* x with every position after t set to zero / to the entries of z
ReplaceAfter(ax, az, at, aL, aD) ==
    [au \in 0..(aL - 1) |-> [ac \in 0..(aD - 1) |->
        IF au <= at THEN ax[au][ac] ELSE az[au][ac]]]
\* x with 1 added to the entry at position bpos, channel bch
Bump(bx, bpos, bch, bL, bD) ==
    [bu \in 0..(bL - 1) |-> [bc \in 0..(bD - 1) |->
        IF bu = bpos /\ bc = bch THEN RAdd(bx[bu][bc], 1) ELSE bx[bu][bc]]]

\* The output of a call of the layer on another input ox of the length of the
\* last call: lines 38-49 read the parameters and L only, so the call computes
\* the H of the last call again, and lines 52-58 apply it to ox.
OutputFor(ox) == LTIConvolve(layer, call.H, ox, call.L)

\* C1: with causal=True the output at position t depends only on the input
\* positions 0..t.  Every input that agrees with x up to t shares with x the
\* input "x up to t, zero after"; the formula checks that y[t] is the output at
\* t for that input, and for the input "x up to t, the ramp after", at every t.
C1_CausalDependsOnPast ==
    (Called1d /\ layer.causal) =>
        /\ DOMAIN call.y = 0..(call.L - 1)
        /\ \A c1t \in 0..(call.L - 1) :
             \A c1z \in {Zero(call.L, layer.input_dim), Ramp(call.L, layer.input_dim)} :
                OutputFor(ReplaceAfter(call.x, c1z, c1t, call.L,
                                       layer.input_dim))[c1t] = call.y[c1t]

\* a causal call whose response reaches back (hc[k] # 0, k >= 1) on an input
\* with entries after position 0, all finite
C1_Witness ==
    /\ Called1d /\ layer.causal /\ call.L >= 2
    /\ call.x = Ramp(call.L, layer.input_dim)
    /\ Finite(call.y, call.L, OutDim(layer))
    /\ \E w1s \in DOMAIN call.h[0] : \E w1k \in 1..(call.L - 1) :
            call.h[0][w1s][w1k] \notin {0, NF}

\* the direct (time-domain) value of output position t, channel j, from the
\* truncated impulse responses hc = h[0], ha = h[1] of the call: for each input
\* channel i feeding j,  h0*x[t] + sum_{k=0..t} hc[k]*x[t-k], plus in non-causal
\* mode sum_{k=0..L-1-t} ha[k]*x[t+k]
DirectTerm(dlayer, dcall, ds, dt) ==
    LET dxi(du) == dcall.x[du][InOf(ds)]
        dpast == RSum([dk \in 0..dt |-> RMul(dcall.h[0][ds][dk], dxi(dt - dk))], 0, dt)
        dfut == RSum([dk \in 0..(dcall.L - 1 - dt) |->
                        RMul(dcall.h[1][ds][dk], dxi(dt + dk))], 0, dcall.L - 1 - dt)
        dnow == RAdd(RMul(dlayer.h0[ds], dxi(dt)), dpast)
    IN  IF dlayer.causal THEN dnow ELSE RAdd(dnow, dfut)
Direct(elayer, ecall, et, ej) ==
    IF elayer.mimo
    THEN RSum([ei \in 0..(elayer.input_dim - 1) |->
                 DirectTerm(elayer, ecall, <<ei, ej>>, et)], 0, elayer.input_dim - 1)
    ELSE DirectTerm(elayer, ecall, <<ej>>, et)

\* C9: the 2L zero-padding removes all circular wraparound: every output
\* position t in 0..L-1 equals h0*x[t] + sum_{k<=t} hc[k]*x[t-k], plus, in
\* non-causal mode only, sum_{k<=L-1-t} ha[k]*x[t+k] (summed over the input
\* channels when mimo); no term has an index taken modulo 2L.
C9_NoWraparound ==
    Called1d =>
        /\ DOMAIN call.y = 0..(call.L - 1)
        /\ \A c9t \in 0..(call.L - 1), c9j \in 0..(OutDim(layer) - 1) :
                call.y[c9t][c9j] = Direct(layer, call, c9t, c9j)

\* a finite non-causal call of length >= 2 whose last response coefficients
\* hc[L-1], ha[L-1] and last input entry are non-zero: without the padding the
\* products hc[L-1]*x[L-1] and ha[L-1]*x[L-1] would wrap into earlier outputs
C9_Witness ==
    /\ Called1d /\ ~layer.causal /\ call.L >= 2
    /\ Finite(call.y, call.L, OutDim(layer))
    /\ \E w9s \in DOMAIN call.h[0] :
            /\ call.h[0][w9s][call.L - 1] \notin {0, NF}
            /\ call.h[1][w9s][call.L - 1] \notin {0, NF}
            /\ call.x[call.L - 1][InOf(w9s)] # 0

\* C4: with order=0 and zero_init=True the output is the input scaled by h0,
\* position by position: y[t] = h0*x[t] (non-mimo), y[t][j] = sum_i x[t][i]*h0[i][j]
\* (mimo); no other input position contributes.
C4_OrderZeroScalesByH0 ==
    (Called1d /\ layer.order = 0 /\ layer.zero_init) =>
        /\ DOMAIN call.y = 0..(call.L - 1)
        /\ \A c4t \in 0..(call.L - 1), c4j \in 0..(OutDim(layer) - 1) :
             call.y[c4t][c4j] =
                IF layer.mimo
                THEN RSum([c4i \in 0..(layer.input_dim - 1) |->
                             RMul(call.x[c4t][c4i], layer.h0[<<c4i, c4j>>])],
                          0, layer.input_dim - 1)
                ELSE RMul(layer.h0[<<c4j>>], call.x[c4t][c4j])

\* an order-0, zero-initialised mimo layer called on an input with no zero entry
C4_Witness ==
    /\ Called1d /\ layer.order = 0 /\ layer.zero_init /\ layer.mimo
    /\ layer.input_dim >= 2 /\ call.L >= 2
    /\ call.x = Ramp(call.L, layer.input_dim)

\* some change of the input after position t changes the output at t
FutureMatters ==
    \E fmt \in 0..(call.L - 2) :
        \E fmp \in (fmt + 1)..(call.L - 1), fmc \in 0..(layer.input_dim - 1) :
            OutputFor(Bump(call.x, fmp, fmc, call.L, layer.input_dim))[fmt]
                # call.y[fmt]

\* C2 as stated: with causal=False, for a layer as constructed (the default
\* zero_init=True included) and an input of length L >= 2, some change of the
\* input after a position t changes the output at t.
C2_FutureAlwaysMatters ==
    (Called1d /\ ~layer.causal /\ call.L >= 2) => FutureMatters

\* C2 as amended: with causal=False and L >= 2, a change of the input after a
\* position t changes the output at t whenever some anticausal coefficient
\* ha[k], 1 <= k <= L-1, is non-zero on a channel pair whose output channel is
\* finite; a zero-initialised layer outputs zero for every input.
C2_FutureMattersIfAnticausal ==
    (Called1d /\ ~layer.causal /\ call.L >= 2) =>
        /\ (\E c2s \in DOMAIN call.h[1] : \E c2k \in 1..(call.L - 1) :
                /\ call.h[1][c2s][c2k] \notin {0, NF}
                /\ call.y[0][OutOf(c2s, layer.mimo)] # NF)
           => FutureMatters
        /\ layer.zero_init =>
                /\ ~FutureMatters
                /\ \A c2t \in 0..(call.L - 1), c2j \in 0..(OutDim(layer) - 1) :
                        call.y[c2t][c2j] = 0

\* a non-causal randomly initialised layer with a non-zero anticausal coefficient
\* and a finite output
C2_Witness ==
    /\ Called1d /\ ~layer.causal /\ call.L >= 2 /\ ~layer.zero_init
    /\ \E w2s \in DOMAIN call.h[1] : \E w2k \in 1..(call.L - 1) :
            /\ call.h[1][w2s][w2k] \notin {0, NF}
            /\ call.y[0][OutOf(w2s, layer.mimo)] # NF
\* ------------------------------------------------------------ claims on LTI2d
Called2d == pc = "called" /\ layer.kind = "LTI2d"

\* the 1-D layer with the order, flags and h0 of the 2-D layer l2 and its
\* first-axis coefficients: those of column fcol of the causal-causal numerator
\* set, of the numerator set fqa taken as the anticausal one, and of the
\* denominator
FirstAxisLTI(fl2, fqa, fcol) ==
    [kind |-> "LTI", input_dim |-> fl2.input_dim, output_dim |-> fl2.output_dim,
     order |-> fl2.order, causal |-> fl2.causal, mimo |-> fl2.mimo,
     zero_init |-> fl2.zero_init, h0 |-> fl2.h0,
     numerators |-> [fq \in 0..1 |-> [fs \in DOMAIN fl2.h0 |->
        [fk \in 0..(fl2.order - 1) |->
            fl2.numerators[IF fq = 0 THEN 0 ELSE fqa][fs][fk][fcol]]]],
     denumerator |-> [fs \in DOMAIN fl2.h0 |->
        [fk \in 0..(fl2.order - 1) |-> fl2.denumerator[fs][fk][fcol]]]]
\* the input and the output of a width-1 call as sequences along the first axis
AlongFirstAxis(fa, faL) == [fat \in 0..(faL - 1) |-> fa[fat][0]]
\* the output of the 1-D layer FirstAxisLTI on the input of the last 2-D call
FirstAxisOutput(foqa, focol) ==
    LTIForward(FirstAxisLTI(layer, foqa, focol),
               AlongFirstAxis(call.x, call.L), call.L).y
FirstAxisColumns == IF layer.order = 0 THEN {0} ELSE 0..(layer.order - 1)

\* C3: LTI2d applied to an input of width L2 = 1 produces the output of the 1-D
\* layer LTI with the same order, flags and h0 and the corresponding first-axis
\* coefficients.  Stated in its weakest form: whenever the 2-D output and the
\* 1-D outputs are finite, the 2-D output equals the 1-D output for some choice
\* of the coefficient column and of the numerator set taken as anticausal.
C3_WidthOneIsLTI ==
    (/\ Called2d /\ call.L2 = 1
     /\ Finite(AlongFirstAxis(call.y, call.L), call.L, OutDim(layer))
     /\ \A c3a \in 1..3, c3c \in FirstAxisColumns :
            Finite(FirstAxisOutput(c3a, c3c), call.L, OutDim(layer)))
    => \E c3q \in 1..3, c3d \in FirstAxisColumns :
            AlongFirstAxis(call.y, call.L) = FirstAxisOutput(c3q, c3d)

\* ------------------------------------------------------------ claims on construction
\* C5: constructing LTI or LTI2d fails with an assertion failure exactly when
\* mimo is False and input_dim # output_dim; every other combination constructs
\* a layer with the given flags, so every constructed non-mimo layer has equal
\* input and output channel counts.
C5_AssertionExactly ==
    /\ (pc = "failed") <=>
            (ctor.cls # "none" /\ ~ctor.mimo /\ ctor.input_dim # ctor.output_dim)
    /\ ctor.cls # "none" => pc \in {"built", "failed"}
    /\ pc = "built" =>
            /\ layer.kind = ctor.cls /\ layer.mimo = ctor.mimo
            /\ layer.input_dim = ctor.input_dim /\ layer.output_dim = ctor.output_dim
            /\ ~layer.mimo => layer.input_dim = layer.output_dim

\* a failed construction of LTI2d
C5_Witness ==
    /\ pc = "failed" /\ ctor.cls = "LTI2d"
    /\ ~ctor.mimo /\ ctor.input_dim # ctor.output_dim

\* ------------------------------------------------------------ claims on the datasets
Constructed == op.loader # "none"
\* no directory holding the loader's files is on disk before the construction
NoFilesBefore ==
    \A nr \in DataRoots : <<nr, ExtractedDir(op.loader)>> \notin op.before

\* C6: a construction with root path P fetches the archive exactly when the
\* dataset's extracted directory is absent under P, and once a construction
\* with P has fetched and extracted the archive, no later one fetches.
C6_FetchOnlyWhenAbsent ==
    Constructed =>
        /\ op.fetched <=> (<<op.path, ExtractedDir(op.loader)>> \notin op.before)
        /\ op.doneBefore => ~op.fetched

\* C10: every file the loading step reads lies under the root path P, the root
\* into which a fetched archive is extracted, so a construction that fetched and
\* extracted under P loads what it has just extracted.
C10_ReadsUnderRoot ==
    Constructed =>
        /\ \A c10r \in op.reads : c10r[1] = op.path
        /\ (op.fetched /\ op.response = "ok") =>
                op.reads = {<<op.path, ExtractedDir(op.loader)>>}

\* C7 as stated: when the fetch fails and no dataset files are on disk, the
\* failure is not raised, a message is printed, construction proceeds to the
\* loading step, which fails with a file-not-found error; no object is produced.
C7_FetchFailureEndsFileNotFound ==
    (Constructed /\ op.fetched /\ op.response \in {"status", "raises"}
        /\ NoFilesBefore) =>
            /\ op.error # "ConnectionError"
            /\ op.printed = <<"downloading", "failed">>
            /\ op.loading
            /\ op.error = "FileNotFoundError"
            /\ ~op.object

\* C7 as amended: when the fetch fails and no dataset files are on disk, no
\* object is produced.  If the fetch answers with a status other than 200, the
\* failure is not raised, a message is printed and the loading step is reached,
\* where CIFAR10Dataset fails with FileNotFoundError and SpeechComand with a
\* ValueError (nothing to stack).  If the fetch raises, the exception leaves the
\* constructor: no failure message is printed and the loading step is not reached.
C7_FetchFailureOutcome ==
    (Constructed /\ op.fetched /\ op.response \in {"status", "raises"}
        /\ NoFilesBefore) =>
            /\ ~op.object
            /\ op.response = "status" =>
                    /\ op.printed = <<"downloading", "failed">>
                    /\ op.loading
                    /\ op.error = IF op.loader = "CIFAR10Dataset"
                                  THEN "FileNotFoundError" ELSE "ValueError"
            /\ op.response = "raises" =>
                    /\ op.printed = <<"downloading">>
                    /\ ~op.loading
                    /\ op.error = "ConnectionError"

\* SpeechComand with no files on disk and a fetch answered by a status other
\* than 200: the loading step is reached and ends with the ValueError
C7_Witness ==
    /\ Constructed /\ op.loader = "SpeechComand" /\ op.fetched
    /\ op.response = "status" /\ NoFilesBefore
    /\ op.loading /\ op.error = "ValueError"

\* ------------------------------------------------------------ claims on the DataLoader
Trained == epoch.loader # "none"
RECURSIVE Concat(_)
\* the batches of an epoch, concatenated
Concat(kbatches) ==
    IF kbatches = <<>> THEN <<>>
    ELSE kbatches[1] \o Concat([kj \in 1..(Len(kbatches) - 1) |-> kbatches[kj + 1]])
\* the sequence qseq holds every index of 0..n-1 exactly once
IsPermutation(qseq, qn) ==
    /\ Len(qseq) = qn
    /\ \A qv \in 0..(qn - 1) : \E qi \in 1..qn : qseq[qi] = qv
Distinct(useq) ==
    \A ui1, ui2 \in 1..Len(useq) : ui1 # ui2 => useq[ui1] # useq[ui2]

\* C8 as stated: for N samples and 1 <= b <= N, the batches of one epoch,
\* concatenated, are a permutation of 0..N-1, while there are floor(N / b)
\* batches of exactly b samples each.
C8_EpochIsPermutation ==
    (Trained /\ epoch.batch_size <= epoch.n) =>
        /\ IsPermutation(Concat(epoch.batches), epoch.n)
        /\ Len(epoch.batches) = epoch.n \div epoch.batch_size
        /\ \A c8k \in 1..Len(epoch.batches) :
                Len(epoch.batches[c8k]) = epoch.batch_size

\* C8 as amended: for N samples and 1 <= b <= N there are floor(N / b) batches
\* of exactly b samples each; concatenated they hold b * floor(N / b) distinct
\* indices of 0..N-1, so N mod b samples are left out of the epoch, and they are
\* a permutation of 0..N-1 exactly when b divides N.
C8_EpochDropsRemainder ==
    (Trained /\ epoch.batch_size <= epoch.n) =>
        /\ Len(epoch.batches) = epoch.n \div epoch.batch_size
        /\ \A a8k \in 1..Len(epoch.batches) :
                Len(epoch.batches[a8k]) = epoch.batch_size
        /\ Len(Concat(epoch.batches)) = epoch.n - (epoch.n % epoch.batch_size)
        /\ Distinct(Concat(epoch.batches))
        /\ \A a8i \in 1..Len(Concat(epoch.batches)) :
                Concat(epoch.batches)[a8i] \in 0..(epoch.n - 1)
        /\ IsPermutation(Concat(epoch.batches), epoch.n)
                <=> (epoch.n % epoch.batch_size = 0)

\* an epoch whose batch size does not divide the number of samples
C8_Witness ==
    /\ Trained /\ epoch.batch_size <= epoch.n
    /\ epoch.n % epoch.batch_size # 0
    /\ Len(epoch.batches) >= 1
    /\ Len(Concat(epoch.batches)) < epoch.n
=============================================================================
